---- MODULE Spec2Model ----
(***************************************************************************)
(* Dev Command Center server (server/src/index.js): the request handler,   *)
(* the source adapters (disk, GitHub, weather, uptime, motivation), the    *)
(* aggregator buildDashboard and the static asset server.                  *)
(*                                                                         *)
(* One request is followed from arrival to the end of its handler.  The    *)
(* handler keeps no state between requests (every request builds its own   *)
(* snapshot), so one request in flight shows every behaviour of a request. *)
(* An action is one run of JavaScript between two awaits: the synchronous   *)
(* part of the handler, or an I/O completion together with the promise     *)
(* continuations (microtasks) it triggers.                                 *)
(***************************************************************************)
EXTENDS Integers, Sequences, FiniteSets, TLC

VARIABLES
    config,      \* process.env read at start-up (part_001 lines 14-17)
    pc,          \* position of the request handler
    req,         \* the inbound request: method, request target, Host header
    pathname,    \* requestUrl.pathname once parsed
    username,    \* requestUrl.searchParams.get('user') || undefined
    disk,        \* promise of getDiskUsage()
    system,      \* promise of getSystemStats()
    github,      \* promise of getGithubRepos(username)
    weather,     \* promise of getWeather()
    readPath,    \* argument of fs.readFile in serveStatic, "" when not called
    responses    \* responses written to res, in order

vars == <<config, pc, req, pathname, username, disk, system, github, weather,
          readPath, responses>>

----------------------------------------------------------------------------
(* Bounds of the model *)

\* df reports sizes and used blocks in 0..MaxKb kilobytes
MaxKb == 3

\* df prints at most MaxFields whitespace-separated fields on its last line
MaxFields == 3

----------------------------------------------------------------------------
(* JavaScript strings *)

Char(s, i) == SubSeq(s, i, i)

StartsWith(s, p) == Len(s) >= Len(p) /\ SubSeq(s, 1, Len(p)) = p

EndsWith(s, p) == Len(s) >= Len(p) /\ SubSeq(s, Len(s) - Len(p) + 1, Len(s)) = p

\* String.prototype.indexOf, 1-based; 0 when c does not occur
IndexOf(s, c) ==
    LET hits == {i \in 1..Len(s) : Char(s, i) = c}
    IN  IF hits = {} THEN 0 ELSE CHOOSE i \in hits : \A j \in hits : i <= j

\* String.prototype.lastIndexOf, 1-based; 0 when c does not occur
LastIndexOf(s, c) ==
    LET hits == {i \in 1..Len(s) : Char(s, i) = c}
    IN  IF hits = {} THEN 0 ELSE CHOOSE i \in hits : \A j \in hits : i >= j

RECURSIVE Split(_, _)
Split(s, sep) ==
    LET i == IndexOf(s, sep)
    IN  IF i = 0 THEN <<s>>
        ELSE <<SubSeq(s, 1, i - 1)>> \o Split(SubSeq(s, i + 1, Len(s)), sep)

RECURSIVE Join(_, _)
Join(segs, sep) ==
    IF segs = <<>> THEN ""
    ELSE IF Len(segs) = 1 THEN segs[1]
    ELSE segs[1] \o sep \o Join(Tail(segs), sep)

Digits == {"0", "1", "2", "3", "4", "5", "6", "7", "8", "9"}

IsDigits(s) == \A i \in 1..Len(s) : Char(s, i) \in Digits

Undefined == "undefined"

JsNull == "null"

----------------------------------------------------------------------------
(* new URL(req.url, `http://${req.headers.host}`)  (WHATWG URL, http scheme) *)

RECURSIVE ParsePort(_)
ParsePort(s) ==
    IF s = "" THEN 0
    ELSE 10 * ParsePort(SubSeq(s, 1, Len(s) - 1))
         + (CHOOSE d \in 0..9 : ToString(d) = Char(s, Len(s)))

\* The base `http://${host}` parses when the host is not empty and its port,
\* if any, is made of digits and at most 65535.
BaseUrlValid(host) ==
    LET i == IndexOf(host, ":")
        name == IF i = 0 THEN host ELSE SubSeq(host, 1, i - 1)
        port == IF i = 0 THEN "" ELSE SubSeq(host, i + 1, Len(host))
    IN  name # "" /\ IsDigits(port) /\ ParsePort(port) <= 65535

SingleDot(seg) == seg \in {".", "%2e", "%2E"}

DoubleDot(seg) == seg \in {"..", ".%2e", ".%2E", "%2e.", "%2E.", "%2e%2e", "%2E%2E"}

\* Path state of the URL parser: a double-dot segment shortens the path, a
\* single-dot segment is skipped, and either one in last place leaves an
\* empty last segment.
RECURSIVE RemoveDotSegments(_, _)
RemoveDotSegments(segs, out) ==
    IF segs = <<>> THEN out
    ELSE LET seg  == Head(segs)
             last == Len(segs) = 1
             popped == IF out = <<>> THEN out ELSE SubSeq(out, 1, Len(out) - 1)
         IN  IF DoubleDot(seg)
               THEN RemoveDotSegments(Tail(segs), IF last THEN Append(popped, "") ELSE popped)
             ELSE IF SingleDot(seg)
               THEN RemoveDotSegments(Tail(segs), IF last THEN Append(out, "") ELSE out)
             ELSE RemoveDotSegments(Tail(segs), Append(out, seg))

RECURSIVE SkipSlashes(_)
SkipSlashes(s) == IF StartsWith(s, "/") THEN SkipSlashes(SubSeq(s, 2, Len(s))) ELSE s

\* The request target without its query
TargetPath(target) ==
    LET q == IndexOf(target, "?")
    IN  IF q = 0 THEN target ELSE SubSeq(target, 1, q - 1)

TargetQuery(target) ==
    LET q == IndexOf(target, "?")
    IN  IF q = 0 THEN "" ELSE SubSeq(target, q + 1, Len(target))

\* A target starting with "//" is scheme-relative: what follows the slashes
\* up to the next "/" is the host, and the path is the rest.
SchemeRelative(target) == StartsWith(TargetPath(target), "//")

Authority(target) ==
    LET rest == SkipSlashes(TargetPath(target))
        i == IndexOf(rest, "/")
    IN  IF i = 0 THEN rest ELSE SubSeq(rest, 1, i - 1)

\* new URL(...) throws TypeError (Invalid URL)
UrlThrows(target, host) ==
    \/ ~BaseUrlValid(host)
    \/ SchemeRelative(target) /\ ~BaseUrlValid(Authority(target))

UrlPathSegments(target) ==
    LET p == TargetPath(target)
        rest == SkipSlashes(p)
        i == IndexOf(rest, "/")
        hier == IF SchemeRelative(target)
                  THEN (IF i = 0 THEN "" ELSE SubSeq(rest, i + 1, Len(rest)))
                ELSE IF StartsWith(p, "/") THEN SubSeq(p, 2, Len(p))
                ELSE p
    IN  Split(hier, "/")

\* A URL parser that keeps the dot segments of the target
UrlPathnameKeepDots(target) == "/" \o Join(UrlPathSegments(target), "/")

UrlPathname(target) == "/" \o Join(RemoveDotSegments(UrlPathSegments(target), <<>>), "/")

\* requestUrl.searchParams.get(name): the first pair of that name, or null
RECURSIVE SearchParamsGet(_, _)
SearchParamsGet(pairs, name) ==
    IF pairs = <<>> THEN JsNull
    ELSE LET kv == Head(pairs)
             e == IndexOf(kv, "=")
             k == IF e = 0 THEN kv ELSE SubSeq(kv, 1, e - 1)
             v == IF e = 0 THEN "" ELSE SubSeq(kv, e + 1, Len(kv))
         IN  IF kv # "" /\ k = name THEN v ELSE SearchParamsGet(Tail(pairs), name)

\* requestUrl.searchParams.get('user') || undefined
UserParam(target) ==
    LET v == SearchParamsGet(Split(TargetQuery(target), "&"), "user")
    IN  IF v = JsNull \/ v = "" THEN Undefined ELSE v

----------------------------------------------------------------------------
(* node:path (POSIX) *)

RECURSIVE NormalizeSegments(_, _)
NormalizeSegments(segs, out) ==
    IF segs = <<>> THEN out
    ELSE LET seg == Head(segs)
         IN  IF seg = "" \/ seg = "."
               THEN NormalizeSegments(Tail(segs), out)
             ELSE IF seg = ".."
               THEN NormalizeSegments(Tail(segs),
                        IF out = <<>> THEN out ELSE SubSeq(out, 1, Len(out) - 1))
             ELSE NormalizeSegments(Tail(segs), Append(out, seg))

\* path.normalize of an absolute path: "." and empty segments dropped, ".."
\* resolved (never above "/"), a trailing slash kept
PathNormalize(p) ==
    LET segs == NormalizeSegments(Split(p, "/"), <<>>)
        body == "/" \o Join(segs, "/")
    IN  IF EndsWith(p, "/") /\ segs # <<>> THEN body \o "/" ELSE body

\* path.join(a, b, ...): the parts joined by "/" and normalized
PathJoin(parts) == PathNormalize(Join(parts, "/"))

\* path.extname: from the last "." of the last segment, "" when there is
\* none or when it is the segment's first character
PathExtname(p) ==
    LET segs == Split(p, "/")
        base == segs[Len(segs)]
        i == LastIndexOf(base, ".")
    IN  IF i <= 1 THEN "" ELSE SubSeq(base, i, Len(base))

ServerSrcDir == "/srv/server/src"

CLIENT_DIR == PathJoin(<<ServerSrcDir, "..", "..", "client">>)

----------------------------------------------------------------------------
(* JavaScript numbers: finite values, NaN and Infinity *)

Num(n) == [kind |-> "finite", n |-> n]

NaN == [kind |-> "NaN", n |-> 0]

Infinity == [kind |-> "Infinity", n |-> 0]

\* JSON.stringify writes a number that is not finite as null
JsonNull == [kind |-> "null", n |-> 0]

\* A destructured element the array does not have
NoNumber == [kind |-> "undefined", n |-> 0]

\* Number.isFinite; false of NaN, of Infinity and of undefined
IsFinite(x) == x.kind = "finite"

DigitValue(c) == CHOOSE d \in 0..9 : ToString(d) = c

RECURSIVE ParseDigits(_, _)
ParseDigits(s, acc) ==
    IF s = "" THEN acc
    ELSE ParseDigits(SubSeq(s, 2, Len(s)), 10 * acc + DigitValue(Char(s, 1)))

\* Number(string): the empty string is 0, decimal digits are their value,
\* anything else is NaN
Number(s) ==
    IF s = "" THEN Num(0)
    ELSE IF IsDigits(s) THEN Num(ParseDigits(s, 0))
    ELSE NaN

KbBytes == 1024

\* Number(((usedBytes / sizeBytes) * 100).toFixed(2)), kept in hundredths of
\* a percent; 0/0 is NaN and x/0 is Infinity, and toFixed keeps both
UsedPercentage(usedBytes, sizeBytes) ==
    IF sizeBytes = 0
      THEN (IF usedBytes = 0 THEN NaN ELSE Infinity)
    ELSE Num((2 * usedBytes * 100 * 100 + sizeBytes) \div (2 * sizeBytes))

----------------------------------------------------------------------------
(* getDiskUsage  (part_001 lines 20-41) *)

RECURSIVE Trim(_)
Trim(s) ==
    IF s = "" THEN s
    ELSE IF Char(s, 1) \in {" ", "\n"} THEN Trim(SubSeq(s, 2, Len(s)))
    ELSE IF Char(s, Len(s)) \in {" ", "\n"} THEN Trim(SubSeq(s, 1, Len(s) - 1))
    ELSE s

\* split(/\s+/) of a trimmed string: runs of blanks separate the fields, and
\* the empty string splits into one empty field
SplitBlanks(s) ==
    IF s = "" THEN <<"">>
    ELSE SelectSeq(Split(s, " "), LAMBDA f : f # "")

ExecFailed == "Command failed: df -k --output=size,used / | tail -n 1"

\* The value getDiskUsage returns when execAsync settles: out is ExecFailed
\* (the promise rejected) or the stdout of the command.
getDiskUsage(out) ==
    IF out = ExecFailed
      THEN [error |-> "Unable to determine disk usage", details |-> ExecFailed]
    ELSE LET fields == [i \in DOMAIN SplitBlanks(Trim(out)) |-> Number(SplitBlanks(Trim(out))[i])]
             sizeKb == IF Len(fields) >= 1 THEN fields[1] ELSE NoNumber
             usedKb == IF Len(fields) >= 2 THEN fields[2] ELSE NoNumber
         IN  IF ~IsFinite(sizeKb) \/ ~IsFinite(usedKb)
               THEN [error |-> "Unable to determine disk usage",
                     details |-> "Invalid disk data"]
             ELSE LET sizeBytes == sizeKb.n * KbBytes
                      usedBytes == usedKb.n * KbBytes
                  IN  [totalBytes |-> Num(sizeBytes),
                       usedBytes |-> Num(usedBytes),
                       freeBytes |-> Num(sizeBytes - usedBytes),
                       usedPercentage |-> UsedPercentage(usedBytes, sizeBytes)]

\* The fields df may print: numbers of kilobytes and a non-numeric word
DfFields == {ToString(n) : n \in 0..MaxKb} \cup {"-"}

RECURSIVE FieldLines(_)
FieldLines(k) ==
    IF k = 0 THEN {<<>>}
    ELSE FieldLines(k - 1) \cup
         {Append(l, f) : l \in {m \in FieldLines(k - 1) : Len(m) = k - 1}, f \in DfFields}

\* What execAsync can settle with: a failure, or a last line of right-aligned
\* columns ended by a newline
ExecOutcomes ==
    {ExecFailed} \cup {" " \o Join(l, "  ") \o "\n" : l \in FieldLines(MaxFields)}

\* Every value getDiskUsage can return
DiskResults == {getDiskUsage(out) : out \in ExecOutcomes}

----------------------------------------------------------------------------
(* getCpuStats, getMemoryStats, getSystemStats, getUptime, getMotivation *)

getCpuStats == [load1 |-> "loadavg[0]", load5 |-> "loadavg[1]",
                load15 |-> "loadavg[2]", cores |-> "cpus().length"]

getMemoryStats == [totalBytes |-> "totalmem", usedBytes |-> "totalmem-freemem",
                   freeBytes |-> "freemem", usedPercentage |-> "used/total"]

\* The value getSystemStats returns once getDiskUsage has returned d
getSystemStats(d) ==
    [cpu |-> getCpuStats, memory |-> getMemoryStats, disk |-> d,
     platform |-> "os.platform()", release |-> "os.release()"]

getUptime == [systemSeconds |-> "os.uptime()", processSeconds |-> "process.uptime()"]

quotes == <<"The bugs fear you. Show them why.",
            "Deploy dreams, not excuses.",
            "Stay determined - even Stack Overflow sleeps sometimes.",
            "Every commit is a spell. Cast wisely.",
            "Code today like the future depends on it.">>

MinuteMs == 60000

\* Date.now() at the time of the call
Times == {0, MinuteMs - 1, MinuteMs}

getMotivation(now) ==
    [quote |-> quotes[((now \div MinuteMs) % Len(quotes)) + 1], allQuotes |-> quotes]

----------------------------------------------------------------------------
(* Promises of the asynchronous adapters *)

Idle == [st |-> "idle", step |-> "", status |-> 0, val |-> [none |-> TRUE]]

Pending(step, status) == [st |-> "pending", step |-> step, status |-> status,
                          val |-> [none |-> TRUE]]

Fulfilled(v) == [st |-> "fulfilled", step |-> "", status |-> 0, val |-> v]

\* Rejected with an Error of that message
Rejected(message) == [st |-> "rejected", step |-> "", status |-> 0,
                      val |-> [message |-> message]]

Settled(p) == p.st \in {"fulfilled", "rejected"}

Started(p) == p.st # "idle"

----------------------------------------------------------------------------
(* getGithubRepos  (part_001 lines 79-108) *)

\* response.ok
ResponseOk(status) == status >= 200 /\ status <= 299

\* Statuses the upstream APIs answer with
UpstreamStatuses == {200, 403}

\* Bodies of upstream error responses
UpstreamTexts == {"API rate limit exceeded"}

\* The synchronous start of getGithubRepos(username): its promise after the
\* code before the first await has run
getGithubReposStart(user) ==
    LET u == IF user # Undefined /\ user # "" THEN user ELSE config.DEFAULT_GITHUB_USER
    IN  IF u = ""
          THEN Fulfilled([error |-> "Missing GitHub username"])
        ELSE Pending("fetch", 0)

\* A record of the upstream repository list
RemoteRepo == [id |-> "1", name |-> "fun", description |-> JsNull,
               html_url |-> "https://github.com/dadyutenga/fun",
               pushed_at |-> "2024-01-01T00:00:00Z", stargazers_count |-> "0",
               language |-> JsNull, fork |-> "false"]

\* What response.json() can settle with: a parse failure, or parsed data
GithubJson == {[parsed |-> FALSE, array |-> FALSE, items |-> <<>>],
               [parsed |-> TRUE, array |-> TRUE, items |-> <<>>],
               [parsed |-> TRUE, array |-> TRUE, items |-> <<RemoteRepo>>],
               [parsed |-> TRUE, array |-> FALSE, items |-> <<>>]}

RepoSummary(repo) ==
    [id |-> repo.id, name |-> repo.name, description |-> repo.description,
     url |-> repo.html_url, pushedAt |-> repo.pushed_at,
     stars |-> repo.stargazers_count, language |-> repo.language]

\* await fetch(url, { headers }) settles: ok is FALSE when the transport failed
getGithubReposFetched(ok, status) ==
    IF ~ok THEN Rejected("fetch failed")
    ELSE IF ~ResponseOk(status) THEN Pending("text", status)
    ELSE Pending("json", status)

\* The error of a response that is not ok, returned without its body
getGithubReposTextNoDetails(ok, status, message) ==
    IF ~ok THEN Rejected("terminated")
    ELSE Fulfilled([error |-> "GitHub API error: " \o ToString(status)])

\* await response.text() settles on a response that is not ok
getGithubReposText(ok, status, message) ==
    IF ~ok THEN Rejected("terminated")
    ELSE Fulfilled([error |-> "GitHub API error: " \o ToString(status),
                    details |-> message])

\* await response.json() settles on an ok response
getGithubReposJson(data) ==
    IF ~data.parsed THEN Rejected("Unexpected token in JSON")
    ELSE IF ~data.array THEN Rejected("data.map is not a function")
    ELSE Fulfilled([array |-> [i \in DOMAIN data.items |-> RepoSummary(data.items[i])]])

----------------------------------------------------------------------------
(* getWeather  (part_001 lines 110-135) *)

getWeatherStart ==
    IF config.WEATHER_LAT = "" \/ config.WEATHER_LON = ""
      THEN Fulfilled([error |->
             "Missing WEATHER_LATITUDE or WEATHER_LONGITUDE environment variables."])
    ELSE Pending("fetch", 0)

\* What response.json() can settle with: a parse failure, JSON null, an
\* object without current_weather and hourly, or the full forecast
WeatherJson == {[parsed |-> FALSE, null |-> FALSE, full |-> FALSE],
                [parsed |-> TRUE, null |-> TRUE, full |-> FALSE],
                [parsed |-> TRUE, null |-> FALSE, full |-> FALSE],
                [parsed |-> TRUE, null |-> FALSE, full |-> TRUE]}

getWeatherFetched(ok, status) ==
    IF ~ok THEN Rejected("fetch failed")
    ELSE IF ~ResponseOk(status) THEN Pending("text", status)
    ELSE Pending("json", status)

getWeatherText(ok, status, message) ==
    IF ~ok THEN Rejected("terminated")
    ELSE Fulfilled([error |-> "Weather API error: " \o ToString(status),
                    details |-> message])

getWeatherJson(data) ==
    IF ~data.parsed THEN Rejected("Unexpected token in JSON")
    ELSE IF data.null THEN Rejected("Cannot read properties of null")
    ELSE IF data.full
      THEN Fulfilled([temperature |-> "21.5", windSpeed |-> "7.2", weatherCode |-> "3",
                      time |-> "2024-01-01T00:00", timezone |-> "GMT",
                      apparentTemperature |-> "20.1", humidity |-> "64"])
    ELSE Fulfilled([temperature |-> Undefined, windSpeed |-> Undefined,
                    weatherCode |-> Undefined, time |-> Undefined,
                    timezone |-> Undefined,
                    apparentTemperature |-> JsNull, humidity |-> JsNull])

----------------------------------------------------------------------------
(* buildDashboard  (part_001 lines 159-172) *)

\* Promise.all over the three promises: rejected as soon as one of them is,
\* fulfilled once all of them are, pending otherwise
PromiseAll(ps) ==
    IF \E i \in DOMAIN ps : ps[i].st = "rejected"
      THEN Rejected((ps[CHOOSE i \in DOMAIN ps : ps[i].st = "rejected"]).val.message)
    ELSE IF \A i \in DOMAIN ps : ps[i].st = "fulfilled"
      THEN Fulfilled([i \in DOMAIN ps |-> ps[i].val])
    ELSE Pending("all", 0)

\* The promise of buildDashboard given those of its three adapters; now is
\* Date.now() when the snapshot is composed
buildDashboard(sys, gh, we, now) ==
    LET all == PromiseAll(<<sys, gh, we>>)
    IN  IF all.st = "fulfilled"
          THEN Fulfilled([system |-> all.val[1], github |-> all.val[2],
                          weather |-> all.val[3], uptime |-> getUptime,
                          motivation |-> getMotivation(now)])
        ELSE all

----------------------------------------------------------------------------
(* Responses: res.writeHead(status, headers); res.end(body) *)

NoHeaders == [h \in {} |-> ""]

CorsHeaders ==
    ("Access-Control-Allow-Origin" :> "*") @@
    ("Access-Control-Allow-Headers" :> "Content-Type") @@
    ("Access-Control-Allow-Methods" :> "GET")

\* JSON.stringify of a number: NaN and Infinity are written as null
JsonNumber(x) == IF x.kind = "finite" THEN x ELSE JsonNull

\* JSON.stringify of a payload, kept as the value a client parses back:
\* numbers that are not finite become null, undefined properties are left out
RECURSIVE Stringify(_)
Stringify(v) ==
    IF "usedPercentage" \in DOMAIN v
      THEN [v EXCEPT !.usedPercentage = JsonNumber(@)]
    ELSE IF "disk" \in DOMAIN v
      THEN [v EXCEPT !.disk = Stringify(@)]
    ELSE IF "system" \in DOMAIN v
      THEN [v EXCEPT !.system = Stringify(@), !.weather = Stringify(@)]
    ELSE IF "temperature" \in DOMAIN v
      THEN [k \in {j \in DOMAIN v : v[j] # Undefined} |-> v[k]]
    ELSE v

\* sendJson without the cross-origin headers
sendJsonNoCors(statusCode, payload) ==
    [status |-> statusCode,
     headers |-> ("Content-Type" :> "application/json") @@
                 ("Content-Length" :> "Buffer.byteLength(body)"),
     body |-> [json |-> Stringify(payload)]]

\* sendJson(res, statusCode, payload)  (part_001 lines 174-184)
sendJson(statusCode, payload) ==
    [status |-> statusCode,
     headers |-> ("Content-Type" :> "application/json") @@
                 ("Content-Length" :> "Buffer.byteLength(body)") @@ CorsHeaders,
     body |-> [json |-> Stringify(payload)]]

----------------------------------------------------------------------------
(* The file system seen by fs.readFile *)

Files ==
    ("/srv/client/index.html" :> "<!DOCTYPE html>") @@
    ("/srv/client/main.js" :> "const formatBytes") @@
    ("/srv/client/styles.css" :> "body {}") @@
    ("/srv/client/logo.PNG" :> "PNG") @@
    ("/srv/client2/secret.txt" :> "secret") @@
    ("/etc/passwd" :> "root:x:0:0")

Directories == {"/", "/srv", "/srv/client", "/srv/client/fonts", "/srv/client2",
                "/srv/server", "/srv/server/src", "/etc"}

\* Files the server process may not read
Unreadable == {"/srv/client/private.key"}

\* await fs.readFile(filePath): the data, or the code of the error thrown
ReadFile(filePath) ==
    LET bare == IF Len(filePath) > 1 /\ EndsWith(filePath, "/")
                  THEN SubSeq(filePath, 1, Len(filePath) - 1) ELSE filePath
    IN  IF filePath \in DOMAIN Files THEN [code |-> "", data |-> Files[filePath]]
        ELSE IF bare \in Directories THEN [code |-> "EISDIR", data |-> ""]
        ELSE IF bare \in DOMAIN Files THEN [code |-> "ENOTDIR", data |-> ""]
        ELSE IF bare \in Unreadable THEN [code |-> "EACCES", data |-> ""]
        ELSE [code |-> "ENOENT", data |-> ""]

\* String.prototype.toLowerCase on the extensions of the file system above
ToLowerCase(ext) == IF ext = ".PNG" THEN ".png" ELSE ext

ContentTypes ==
    (".html" :> "text/html") @@ (".css" :> "text/css") @@
    (".js" :> "application/javascript") @@ (".json" :> "application/json") @@
    (".svg" :> "image/svg+xml")

\* serveStatic(req, res, filePath)  (part_001 lines 186-211): the response it
\* writes once fs.readFile has settled
serveStatic(filePath) ==
    LET read == ReadFile(filePath)
        ext == ToLowerCase(PathExtname(filePath))
        type == IF ext \in DOMAIN ContentTypes THEN ContentTypes[ext]
                ELSE "application/octet-stream"
    IN  IF read.code = ""
          THEN [status |-> 200,
                headers |-> ("Content-Type" :> type) @@
                            ("Content-Length" :> "data.length"),
                body |-> [text |-> read.data]]
        ELSE IF read.code = "ENOENT"
          THEN [status |-> 404, headers |-> NoHeaders, body |-> [text |-> "Not Found"]]
        ELSE [status |-> 500, headers |-> NoHeaders, body |-> [text |-> "Server Error"]]

----------------------------------------------------------------------------
(* The requests and the configuration the model draws from *)

Methods == {"GET", "POST", "OPTIONS"}

Hosts == {"localhost:4000", "localhost:99999"}

Targets == {"/", "/index.html", "/styles.css", "/logo.PNG", "/missing.png",
            "/private.key", "/fonts/", "/index.html/",
            "/../../etc/passwd", "/../client2/secret.txt", "/%2e%2e/%2E%2e/etc/passwd",
            "//", "//api/system", "/api",
            "/api/system", "/api/github", "/api/github?user=octocat",
            "/api/weather", "/api/uptime", "/api/motivation",
            "/api/dashboard", "/api/dashboard?tab=1&user=octocat",
            "/api/nonexistent", "/api/system/", "/api/", "/api/x/../uptime"}

Configs == [DEFAULT_GITHUB_USER : {"", "dadyutenga"},
            WEATHER_LAT : {"", "40.7128"},
            WEATHER_LON : {"", "-74.0060"}]

NoRequest == [method |-> "", target |-> "", host |-> ""]

----------------------------------------------------------------------------
(* The request handler  (part_001 lines 213-277) *)

\* A dispatch that matches the table paths as prefixes
RouteByPrefix(p) ==
    IF StartsWith(p, "/api/")
      THEN (IF StartsWith(p, "/api/system") THEN "system"
            ELSE IF StartsWith(p, "/api/github") THEN "github"
            ELSE IF StartsWith(p, "/api/weather") THEN "weather"
            ELSE IF StartsWith(p, "/api/uptime") THEN "uptime"
            ELSE IF StartsWith(p, "/api/motivation") THEN "motivation"
            ELSE IF StartsWith(p, "/api/dashboard") THEN "dashboard"
            ELSE "notfound")
    ELSE "static"

\* The branch of the handler a parsed pathname takes
Route(p) ==
    IF StartsWith(p, "/api/")
      THEN (IF p = "/api/system" THEN "system"
            ELSE IF p = "/api/github" THEN "github"
            ELSE IF p = "/api/weather" THEN "weather"
            ELSE IF p = "/api/uptime" THEN "uptime"
            ELSE IF p = "/api/motivation" THEN "motivation"
            ELSE IF p = "/api/dashboard" THEN "dashboard"
            ELSE "notfound")
    ELSE "static"

\* The handler after `await p` inside the try block: it stays suspended while
\* p is pending, sends p's value with status 200 when p is fulfilled, and
\* catches p's rejection and sends status 500
Await(p, awaiting) ==
    IF p.st = "fulfilled"
      THEN [pc |-> "returned", responses |-> Append(responses, sendJson(200, p.val))]
    ELSE IF p.st = "rejected"
      THEN [pc |-> "returned",
            responses |-> Append(responses,
                sendJson(500, [error |-> "Server error", details |-> p.val.message]))]
    ELSE [pc |-> awaiting, responses |-> responses]

\* The microtasks run after an I/O completion: the suspended handler, if it
\* is still suspended, looks at the promise it awaits
Resume(sys, gh, we, now) ==
    IF pc = "awaitSystem" THEN Await(sys, pc)
    ELSE IF pc = "awaitGithub" THEN Await(gh, pc)
    ELSE IF pc = "awaitWeather" THEN Await(we, pc)
    ELSE IF pc = "awaitDashboard" THEN Await(buildDashboard(sys, gh, we, now), pc)
    ELSE [pc |-> pc, responses |-> responses]

\* The resolved path is inside the asset root, as the handler tests it
InsideClientDir(resolvedPath) == StartsWith(resolvedPath, CLIENT_DIR)

\* path.normalize(path.join(CLIENT_DIR, safePath))
ResolvedPath(p) ==
    LET safePath == IF p = "/" \/ p = "" THEN "/index.html" ELSE p
    IN  PathNormalize(PathJoin(<<CLIENT_DIR, safePath>>))

Init ==
    /\ config \in Configs
    /\ pc = "listening"
    /\ req = NoRequest
    /\ pathname = ""
    /\ username = Undefined
    /\ disk = Idle
    /\ system = Idle
    /\ github = Idle
    /\ weather = Idle
    /\ readPath = ""
    /\ responses = <<>>

\* A request arrives and the handler is called with it
Receive ==
    /\ pc = "listening"
    /\ req' \in [method : Methods, target : Targets, host : Hosts]
    /\ pc' = "handler"
    /\ UNCHANGED <<config, pathname, username, disk, system, github, weather,
                   readPath, responses>>

\* lines 214-222
HandleOptions ==
    /\ pc = "handler"
    /\ req.method = "OPTIONS"
    /\ responses' = Append(responses,
           [status |-> 204, headers |-> CorsHeaders, body |-> [empty |-> TRUE]])
    /\ pc' = "returned"
    /\ UNCHANGED <<config, req, pathname, username, disk, system, github, weather,
                   readPath>>

\* line 224: new URL throws, outside any try block: the async handler's
\* promise is rejected and nothing is written to res
HandleInvalidUrl ==
    /\ pc = "handler"
    /\ req.method # "OPTIONS"
    /\ UrlThrows(req.target, req.host)
    /\ pc' = "rejected"
    /\ UNCHANGED <<config, req, pathname, username, disk, system, github, weather,
                   readPath, responses>>

\* lines 224-225 and the branch condition of a route
Parsed(route) ==
    /\ pc = "handler"
    /\ req.method # "OPTIONS"
    /\ ~UrlThrows(req.target, req.host)
    /\ Route(UrlPathname(req.target)) = route
    /\ pathname' = UrlPathname(req.target)

\* lines 229-233
HandleApiSystem ==
    /\ Parsed("system")
    /\ disk' = Pending("exec", 0)
    /\ system' = Pending("disk", 0)
    /\ pc' = "awaitSystem"
    /\ UNCHANGED <<config, req, username, github, weather, readPath, responses>>

\* lines 234-239
HandleApiGithub ==
    /\ Parsed("github")
    /\ username' = UserParam(req.target)
    /\ LET gh == getGithubReposStart(UserParam(req.target))
           k == Await(gh, "awaitGithub")
       IN  github' = gh /\ pc' = k.pc /\ responses' = k.responses
    /\ UNCHANGED <<config, req, disk, system, weather, readPath>>

\* lines 240-244
HandleApiWeather ==
    /\ Parsed("weather")
    /\ LET we == getWeatherStart
           k == Await(we, "awaitWeather")
       IN  weather' = we /\ pc' = k.pc /\ responses' = k.responses
    /\ UNCHANGED <<config, req, username, disk, system, github, readPath>>

\* lines 245-248
HandleApiUptime ==
    /\ Parsed("uptime")
    /\ responses' = Append(responses, sendJson(200, getUptime))
    /\ pc' = "returned"
    /\ UNCHANGED <<config, req, username, disk, system, github, weather, readPath>>

\* lines 249-252
HandleApiMotivation ==
    /\ Parsed("motivation")
    /\ \E now \in Times :
         responses' = Append(responses, sendJson(200, getMotivation(now)))
    /\ pc' = "returned"
    /\ UNCHANGED <<config, req, username, disk, system, github, weather, readPath>>

\* lines 253-258 with lines 159-164 and 66-69: the three adapters are called
\* one after the other in the same synchronous run, then the handler awaits
HandleApiDashboard ==
    /\ Parsed("dashboard")
    /\ username' = UserParam(req.target)
    /\ \E now \in Times :
         LET sys == Pending("disk", 0)
             gh == getGithubReposStart(UserParam(req.target))
             we == getWeatherStart
             k == Await(buildDashboard(sys, gh, we, now), "awaitDashboard")
         IN  /\ disk' = Pending("exec", 0)
             /\ system' = sys
             /\ github' = gh
             /\ weather' = we
             /\ pc' = k.pc
             /\ responses' = k.responses
    /\ UNCHANGED <<config, req, readPath>>

\* line 259
HandleApiNotFound ==
    /\ Parsed("notfound")
    /\ responses' = Append(responses, sendJson(404, [error |-> "Endpoint not found"]))
    /\ pc' = "returned"
    /\ UNCHANGED <<config, req, username, disk, system, github, weather, readPath>>

\* lines 266-276 and 186-188: the containment test, then serveStatic up to
\* its await of fs.readFile
HandleStatic ==
    /\ Parsed("static")
    /\ LET resolvedPath == ResolvedPath(UrlPathname(req.target))
       IN  IF ~InsideClientDir(resolvedPath)
             THEN /\ responses' = Append(responses,
                        [status |-> 403, headers |-> NoHeaders,
                         body |-> [text |-> "Forbidden"]])
                  /\ pc' = "returned"
                  /\ readPath' = readPath
           ELSE /\ readPath' = resolvedPath
                /\ pc' = "awaitRead"
                /\ responses' = responses
    /\ UNCHANGED <<config, req, username, disk, system, github, weather>>

\* lines 188-210: fs.readFile settles and serveStatic writes the response
ReadFileSettles ==
    /\ pc = "awaitRead"
    /\ responses' = Append(responses, serveStatic(readPath))
    /\ pc' = "returned"
    /\ UNCHANGED <<config, req, pathname, username, disk, system, github, weather,
                   readPath>>

\* line 22: execAsync settles; getDiskUsage returns (lines 23-40), and with
\* it getSystemStats (lines 70-76)
ExecSettles ==
    /\ disk.st = "pending"
    /\ \E r \in DiskResults, now \in Times :
         LET sys == Fulfilled(getSystemStats(r))
             k == Resume(sys, github, weather, now)
         IN  /\ disk' = Fulfilled(r)
             /\ system' = sys
             /\ pc' = k.pc
             /\ responses' = k.responses
    /\ UNCHANGED <<config, req, pathname, username, github, weather, readPath>>

\* line 93: fetch settles
GithubFetchSettles ==
    /\ github.st = "pending" /\ github.step = "fetch"
    /\ \E ok \in BOOLEAN, status \in UpstreamStatuses, now \in Times :
         LET gh == getGithubReposFetched(ok, status)
             k == Resume(system, gh, weather, now)
         IN  github' = gh /\ pc' = k.pc /\ responses' = k.responses
    /\ UNCHANGED <<config, req, pathname, username, disk, system, weather, readPath>>

\* lines 95-96: response.text() settles
GithubTextSettles ==
    /\ github.st = "pending" /\ github.step = "text"
    /\ \E ok \in BOOLEAN, message \in UpstreamTexts, now \in Times :
         LET gh == getGithubReposText(ok, github.status, message)
             k == Resume(system, gh, weather, now)
         IN  github' = gh /\ pc' = k.pc /\ responses' = k.responses
    /\ UNCHANGED <<config, req, pathname, username, disk, system, weather, readPath>>

\* lines 98-107: response.json() settles
GithubJsonSettles ==
    /\ github.st = "pending" /\ github.step = "json"
    /\ \E data \in GithubJson, now \in Times :
         LET gh == getGithubReposJson(data)
             k == Resume(system, gh, weather, now)
         IN  github' = gh /\ pc' = k.pc /\ responses' = k.responses
    /\ UNCHANGED <<config, req, pathname, username, disk, system, weather, readPath>>

\* line 119
WeatherFetchSettles ==
    /\ weather.st = "pending" /\ weather.step = "fetch"
    /\ \E ok \in BOOLEAN, status \in UpstreamStatuses, now \in Times :
         LET we == getWeatherFetched(ok, status)
             k == Resume(system, github, we, now)
         IN  weather' = we /\ pc' = k.pc /\ responses' = k.responses
    /\ UNCHANGED <<config, req, pathname, username, disk, system, github, readPath>>

\* lines 121-122
WeatherTextSettles ==
    /\ weather.st = "pending" /\ weather.step = "text"
    /\ \E ok \in BOOLEAN, message \in UpstreamTexts, now \in Times :
         LET we == getWeatherText(ok, weather.status, message)
             k == Resume(system, github, we, now)
         IN  weather' = we /\ pc' = k.pc /\ responses' = k.responses
    /\ UNCHANGED <<config, req, pathname, username, disk, system, github, readPath>>

\* lines 124-134
WeatherJsonSettles ==
    /\ weather.st = "pending" /\ weather.step = "json"
    /\ \E data \in WeatherJson, now \in Times :
         LET we == getWeatherJson(data)
             k == Resume(system, github, we, now)
         IN  weather' = we /\ pc' = k.pc /\ responses' = k.responses
    /\ UNCHANGED <<config, req, pathname, username, disk, system, github, readPath>>

Next ==
    \/ Receive
    \/ HandleOptions
    \/ HandleInvalidUrl
    \/ HandleApiSystem
    \/ HandleApiGithub
    \/ HandleApiWeather
    \/ HandleApiUptime
    \/ HandleApiMotivation
    \/ HandleApiDashboard
    \/ HandleApiNotFound
    \/ HandleStatic
    \/ ReadFileSettles
    \/ ExecSettles
    \/ GithubFetchSettles
    \/ GithubTextSettles
    \/ GithubJsonSettles
    \/ WeatherFetchSettles
    \/ WeatherTextSettles
    \/ WeatherJsonSettles

Spec == Init /\ [][Next]_vars

----------------------------------------------------------------------------
(* Properties *)

\* The handler has parsed the request URL
UrlParsed == pathname # ""

HasCors(r) ==
    \A h \in DOMAIN CorsHeaders :
        h \in DOMAIN r.headers /\ r.headers[h] = CorsHeaders[h]

NoCors(r) == DOMAIN r.headers \cap DOMAIN CorsHeaders = {}

\* p is the asset root or a path below it
Within(p) == p = CLIENT_DIR \/ StartsWith(p, CLIENT_DIR \o "/")

IsErrorShape(v) == DOMAIN v = {"error", "details"}

DiskSuccessKeys == {"totalBytes", "usedBytes", "freeBytes", "usedPercentage"}

WeatherSuccessKeys == {"temperature", "windSpeed", "weatherCode", "time", "timezone",
                       "apparentTemperature", "humidity"}

GithubSuccessKeys == {"array"}

\* The adapters a request has called
Called ==
    {a \in {"disk", "system", "github", "weather"} :
        Started(CASE a = "disk" -> disk [] a = "system" -> system
                  [] a = "github" -> github [] OTHER -> weather)}

\* The promise an /api/ handler awaits
Awaited(now) ==
    CASE Route(pathname) = "system" -> system
      [] Route(pathname) = "github" -> github
      [] Route(pathname) = "weather" -> weather
      [] Route(pathname) = "dashboard" -> buildDashboard(system, github, weather, now)
      [] OTHER -> Idle

\* C1 (as claimed): buildDashboard never fails as a call: whatever the
\* outcomes of the disk query, the GitHub call and the weather call, its
\* promise is never rejected, and once the three have finished it is fulfilled
\* with a composite holding each adapter's success or {error, details} shape.
C1_BuildDashboardNeverFails ==
    (UrlParsed /\ Route(pathname) = "dashboard") =>
        \A now \in Times :
            LET d == buildDashboard(system, github, weather, now)
            IN  /\ d.st # "rejected"
                /\ (Settled(system) /\ Settled(github) /\ Settled(weather)) =>
                       /\ d.st = "fulfilled"
                       /\ d.val.system = system.val
                       /\ d.val.github = github.val
                       /\ d.val.weather = weather.val

\* C2 (as claimed): no adapter propagates an exception to its caller: the
\* promises of getDiskUsage, getGithubRepos and getWeather are never rejected,
\* and the value returned for a non-2xx upstream response carries the status
\* and the response body as details.
C2_AdaptersNeverThrow ==
    /\ disk.st # "rejected"
    /\ github.st # "rejected"
    /\ weather.st # "rejected"
    /\ \A p \in {github, weather} :
          (p.st = "fulfilled" /\ "details" \in DOMAIN p.val) =>
              /\ p.val.details \in UpstreamTexts
              /\ \E st \in UpstreamStatuses :
                    ~ResponseOk(st) /\ EndsWith(p.val.error, ToString(st))

\* C3 (as claimed): a request path that escapes the asset root when resolved
\* against it, such as /../../etc/passwd, is answered 403 without serveStatic
\* being called; any other path is answered 200 when the file is present and
\* 404 when it is absent.
C3_TraversalAnswered403 ==
    (UrlParsed /\ Route(pathname) = "static" /\ pc = "returned") =>
        LET raw == PathNormalize(PathJoin(<<CLIENT_DIR, TargetPath(req.target)>>))
            r == responses[1]
        IN  /\ ~Within(raw) => (r.status = 403 /\ readPath = "")
            /\ (Within(raw) /\ readPath \in DOMAIN Files) => r.status = 200
            /\ (Within(raw) /\ ReadFile(readPath).code = "ENOENT") => r.status = 404

\* C3 (amended): no file outside the asset root is ever read or served: URL
\* parsing removes the dot segments of the request target before the path is
\* resolved, so the resolved path of every non-/api request lies inside the
\* root, the request is never answered 403 and serveStatic reads the resolved
\* path: a present file is answered 200 with its content, an absent one 404.
C3_NoFileOutsideRoot ==
    /\ readPath # "" => Within(readPath)
    /\ (UrlParsed /\ Route(pathname) = "static" /\ pc = "returned") =>
          LET r == responses[1]
          IN  /\ r.status # 403
              /\ readPath = ResolvedPath(pathname)
              /\ readPath \in DOMAIN Files =>
                     (r.status = 200 /\ r.body = [text |-> Files[readPath]])
              /\ ReadFile(readPath).code = "ENOENT" => r.status = 404
              /\ r.status = 200 => readPath \in DOMAIN Files

\* A traversal target has been answered from inside the root
C3_Witness ==
    /\ pc = "returned"
    /\ req.target = "/../../etc/passwd"
    /\ readPath = "/srv/client/etc/passwd"
    /\ responses[1].status = 404

\* C4 (as claimed): every response, whatever the method, path or status,
\* carries the three cross-origin headers, and an OPTIONS request is answered
\* 204 with no body.
C4_CorsOnEveryResponse ==
    \A i \in DOMAIN responses :
        /\ HasCors(responses[i])
        /\ req.method = "OPTIONS" =>
               (responses[i].status = 204 /\ responses[i].body = [empty |-> TRUE])

\* C4 (amended): every response to an OPTIONS request and every response of
\* an /api/ route (200, 404, 500) carries the three cross-origin headers; an
\* OPTIONS request on any path is answered 204 with no body; the responses of
\* the static branch (200, 403, 404, 500) carry no cross-origin header.
C4_CorsOnApiAndPreflight ==
    \A i \in DOMAIN responses :
        LET r == responses[i]
        IN  /\ req.method = "OPTIONS" =>
                   (r.status = 204 /\ r.body = [empty |-> TRUE] /\ HasCors(r))
            /\ (req.method # "OPTIONS" /\ StartsWith(pathname, "/api/")) =>
                   (HasCors(r) /\ r.status \in {200, 404, 500})
            /\ (req.method # "OPTIONS" /\ ~StartsWith(pathname, "/api/")) =>
                   (NoCors(r) /\ r.status \in {200, 403, 404, 500})

\* An error response of an /api/ route has been sent with the headers
C4_Witness ==
    /\ pc = "returned"
    /\ pathname = "/api/github"
    /\ responses[1].status = 500
    /\ HasCors(responses[1])

\* C5 (as claimed): on an /api/ request the status is 200 whenever the
\* adapter or aggregator returns a value, error shapes included; it is 500
\* with body {error, details} exactly when an exception is raised while the
\* request is handled, and every such exception is caught and mapped to 500.
C5_ApiExceptionsMappedTo500 ==
    (req.method # "OPTIONS" /\ StartsWith(TargetPath(req.target), "/api/")) =>
        /\ pc # "rejected"
        /\ pc = "returned" =>
              /\ Len(responses) = 1
              /\ \A now \in Times :
                    /\ Awaited(now).st = "fulfilled" => responses[1].status = 200
                    /\ Awaited(now).st = "rejected" <=> responses[1].status = 500
              /\ responses[1].status = 500 =>
                    DOMAIN responses[1].body.json = {"error", "details"}

GithubUserMissing == username = Undefined /\ config.DEFAULT_GITHUB_USER = ""

WeatherConfigMissing == config.WEATHER_LAT = "" \/ config.WEATHER_LON = ""

C7_ExactPathDispatch ==
    UrlParsed =>
        /\ pathname = "/api/system" => Called = {"disk", "system"}
        /\ pathname = "/api/github" => Called = {"github"}
        /\ pathname = "/api/weather" => Called = {"weather"}
        /\ pathname = "/api/dashboard" => Called = {"disk", "system", "github", "weather"}
        /\ pathname = "/api/uptime" =>
               (Called = {} /\ responses[1].status = 200
                            /\ responses[1].body = [json |-> getUptime])
        /\ pathname = "/api/motivation" =>
               (Called = {} /\ responses[1].status = 200
                            /\ \E now \in Times :
                                  responses[1].body = [json |-> getMotivation(now)])
        /\ (StartsWith(pathname, "/api/") /\
            pathname \notin {"/api/system", "/api/github", "/api/weather",
                             "/api/uptime", "/api/motivation", "/api/dashboard"}) =>
               /\ Called = {}
               /\ pc = "returned"
               /\ Len(responses) = 1
               /\ responses[1].status = 404
               /\ responses[1].body = [json |-> [error |-> "Endpoint not found"]]
        /\ StartsWith(pathname, "/api/") => readPath = ""
        /\ ~StartsWith(pathname, "/api/") => Called = {}

\* A near miss of a table path has been answered 404
C7_Witness ==
    /\ pathname = "/api/system/"
    /\ pc = "returned"
    /\ responses[1].status = 404

\* C8 (as claimed): getDiskUsage returns the error shape when the command
\* fails or prints no two numbers, and otherwise totalBytes = size_kb*1024,
\* usedBytes = used_kb*1024, freeBytes = totalBytes - usedBytes and
\* usedPercentage = used/size*100 rounded to 2 decimals, every field of a
\* success value being a finite number, also when size_kb is 0.
C8_DiskFieldsFinite ==
    (disk.st = "fulfilled" /\ ~IsErrorShape(disk.val)) =>
        /\ \A k \in DiskSuccessKeys : disk.val[k].kind = "finite"
        /\ disk.val.totalBytes.n % KbBytes = 0
        /\ disk.val.usedBytes.n % KbBytes = 0
        /\ disk.val.freeBytes.n = disk.val.totalBytes.n - disk.val.usedBytes.n
        /\ LET size == disk.val.totalBytes.n
               used == disk.val.usedBytes.n
               pct == disk.val.usedPercentage.n
           IN  /\ 2 * (pct * size - used * 100 * 100) <= size
               /\ 2 * (used * 100 * 100 - pct * size) <= size

\* C9 (as claimed): for one /api/dashboard request the three adapters are
\* all started before any of them completes, and no response is composed or
\* sent until all three have settled, whether they succeeded or failed.
C9_JoinOnSettlement ==
    (UrlParsed /\ Route(pathname) = "dashboard") =>
        /\ (Settled(system) \/ Settled(github) \/ Settled(weather)) =>
               (Started(system) /\ Started(github) /\ Started(weather))
        /\ responses # <<>> =>
               (Settled(system) /\ Settled(github) /\ Settled(weather))

\* C10 (as claimed): every request receives exactly one response: the
\* handler never finishes without having written a response, and never
\* writes a second one.
C10_ExactlyOneResponse ==
    /\ Len(responses) <= 1
    /\ pc \in {"returned", "rejected"} => Len(responses) = 1

====
